---- MODULE Spec2Model ----
(***************************************************************************)
(* Braille haptic tutor: the reading-cursor engine of src/App.tsx (the      *)
(* first component of the file, lines 8-388, the latest iteration of App), *)
(* the dots a letter cell renders (src/components/BrailleCell.tsx) and the *)
(* translation service of src/services/geminiService.ts.                   *)
(*                                                                         *)
(* Every event handler is one action.  A handler's React state updates,    *)
(* the render they cause and the passive effect of that render             *)
(* (useEffect([currentWord, displayMode])) are one step: events are        *)
(* processed one at a time and the effect is flushed before the next one.  *)
(*                                                                         *)
(* Text is a sequence of one-character strings.  A nullable value is a     *)
(* sequence of length at most one: <<>> is null, <<v>> is v.               *)
(***************************************************************************)
EXTENDS Integers, Sequences, FiniteSets, TLC

(***************************************************************************)
(* Bounds of the model.                                                    *)
(***************************************************************************)
\* speech-engine queue length above which the dot cue is not exercised
MaxQueue == 2
\* recognition sessions plus translations that may be outstanding at once
MaxOutstanding == 1
\* the same where dictation alone is looked at
MaxDictations == 2

(***************************************************************************)
(* Characters and case conversion (String.prototype.toLowerCase /          *)
(* toUpperCase) on the characters the model uses.                          *)
(***************************************************************************)
toLowerCase(c) ==
    CASE c = "S" -> "s"
      [] OTHER   -> c

toUpperCase(c) ==
    CASE c = "s" -> "S"
      [] c = "o" -> "O"
      [] c = "l" -> "L"
      [] c = "n" -> "N"
      [] c = "u" -> "U"
      [] c = "x" -> "X"
      [] c = "y" -> "Y"
      [] c = "z" -> "Z"
      [] OTHER   -> c

\* normalize("NFD").replace(/[\u0300-\u036f]/g, ""): the character without
\* its diacritic
stripAccents(c) ==
    CASE c = "ö" -> "o"
      [] OTHER   -> c

(***************************************************************************)
(* Dot patterns.  BRAILLE_MAP comes from ./constants, which is not part of *)
(* the sources at hand: the standard six-dot patterns are used.            *)
(***************************************************************************)
NoDots == <<FALSE, FALSE, FALSE, FALSE, FALSE, FALSE>>

BRAILLE_MAP ==
    [c \in {"s", "o", "l", "n", "u", "x", "y", "z"} |->
        CASE c = "s" -> <<FALSE, TRUE, TRUE, TRUE, FALSE, FALSE>>
          [] c = "o" -> <<TRUE, FALSE, TRUE, FALSE, TRUE, FALSE>>
          [] c = "l" -> <<TRUE, TRUE, TRUE, FALSE, FALSE, FALSE>>
          [] c = "n" -> <<TRUE, FALSE, TRUE, TRUE, TRUE, FALSE>>
          [] c = "u" -> <<TRUE, FALSE, TRUE, FALSE, FALSE, TRUE>>
          [] c = "x" -> <<TRUE, FALSE, TRUE, TRUE, FALSE, TRUE>>
          [] c = "y" -> <<TRUE, FALSE, TRUE, TRUE, TRUE, TRUE>>
          [] c = "z" -> <<TRUE, FALSE, TRUE, FALSE, TRUE, TRUE>>]

\* getBrailleData: one {char, dots} per character of the lower-cased text;
\* normalizedChar is char on both branches of the conditional.
getBrailleData(text) ==
    [i \in 1..Len(text) |->
        LET char == toLowerCase(text[i])
            normalizedChar == IF stripAccents(char) = "n" /\ char # "ñ"
                                THEN char
                                ELSE char
        IN [char |-> char,
            dots |-> IF toLowerCase(char) \in DOMAIN BRAILLE_MAP
                        THEN BRAILLE_MAP[toLowerCase(char)]
                     ELSE IF normalizedChar \in DOMAIN BRAILLE_MAP
                        THEN BRAILLE_MAP[normalizedChar]
                     ELSE NoDots]]

(***************************************************************************)
(* State.                                                                  *)
(***************************************************************************)
VARIABLES
    \* React state of App
    currentWord, translatedWord, isListening, isTranslating, displayMode,
    error, audioFeedbackEnabled,
    \* refs of App
    lastTouchedDotRef, lastReadCharIndexRef,
    \* where the finger was at the last event of the touch in progress
    finger,
    \* the cell the touch in progress started on, which receives its events
    \* when the cell has touch handlers, and lastTouchedElementRef of that cell
    touchTarget, lastTouchedElementRef,
    \* recognition sessions and translateWord calls not yet settled
    recognitions, translations,
    \* the platform: utterances the speech engine still holds, and what the
    \* last event handler called on it (mock-scheduler call order), the
    \* vibration calls of the last handler, whether it threw, and the event
    pending, calls, vibrations, threw, ev,
    \* the host: window.speechSynthesis, navigator.vibrate, SpeechRecognition
    \* and the API key present or not
    speechSynthesis, vibrate, SpeechRecognition, apiKey,
    \* the elements the scroll container holds as children: the markup of App,
    \* or letter cells laid out in the container itself (see children)
    markup

appVars == <<currentWord, translatedWord, isListening, isTranslating,
             displayMode, error, audioFeedbackEnabled>>
refVars == <<lastTouchedDotRef, lastReadCharIndexRef>>
touchVars == <<finger, touchTarget, lastTouchedElementRef>>
asyncVars == <<recognitions, translations>>
outVars == <<pending, calls, vibrations, threw, ev>>
hostVars == <<speechSynthesis, vibrate, SpeechRecognition, apiKey, markup>>
vars == <<appVars, refVars, touchVars, asyncVars, outVars, hostVars>>

(***************************************************************************)
(* The speech engine: window.speechSynthesis.  cancel() empties the queue  *)
(* (the utterance being spoken is its head), speak(u) appends u.  An       *)
(* engine value carries the queue and the calls made on it in this step.   *)
(***************************************************************************)
Utterance(text, lang, rate) == [text |-> text, lang |-> lang, rate |-> rate]

NoUtterance == Utterance(<<>>, "", 0)

cancelCall(e) ==
    [q |-> <<>>, log |-> Append(e.log, [call |-> "cancel", u |-> NoUtterance])]

speakCall(e, u) ==
    [q |-> Append(e.q, u), log |-> Append(e.log, [call |-> "speak", u |-> u])]

\* a speak that would not cancel first
speakWithoutCancel(e, text, lang, rate) ==
    IF ~speechSynthesis THEN e
    ELSE speakCall(e, Utterance(text, lang, rate))

\* speak(text, lang = 'es-ES', rate = 1.0); rates are in tenths
speak(e, text, lang, rate) ==
    IF ~speechSynthesis THEN e
    ELSE speakCall(cancelCall(e), Utterance(text, lang, rate))

\* a speakMixed that would say the content before the intro
speakMixedContentFirst(e, introText, contentText, contentLang) ==
    IF ~speechSynthesis THEN e
    ELSE LET u1 == Utterance(introText, "es-ES", 10)
             u2 == Utterance(contentText, contentLang, 9)
         IN speakCall(speakCall(cancelCall(e), u2), u1)

\* a speakMixed that would queue behind what is pending
speakMixedWithoutCancel(e, introText, contentText, contentLang) ==
    IF ~speechSynthesis THEN e
    ELSE LET u1 == Utterance(introText, "es-ES", 10)
             u2 == Utterance(contentText, contentLang, 9)
         IN speakCall(speakCall(e, u1), u2)

\* u1 is the intro in es-ES at the default rate, u2 the content at rate 0.9
speakMixed(e, introText, contentText, contentLang) ==
    IF ~speechSynthesis THEN e
    ELSE LET u1 == Utterance(introText, "es-ES", 10)
             u2 == Utterance(contentText, contentLang, 9)
         IN speakCall(speakCall(cancelCall(e), u1), u2)

\* the engine as an event handler finds it
Engine == [q |-> pending, log |-> <<>>]

(***************************************************************************)
(* What is rendered in the scroll container.                               *)
(***************************************************************************)
activeTextOf(word, translated, mode) ==
    IF mode = "spanish" THEN word ELSE translated

activeText == activeTextOf(currentWord, translatedWord, displayMode)

\* one BrailleCell per entry of brailleData when currentWord is non-empty
brailleDataOf(word, translated, mode) ==
    IF word = <<>> THEN <<>>
    ELSE getBrailleData(activeTextOf(word, translated, mode))

brailleData == brailleDataOf(currentWord, translatedWord, displayMode)

\* the layout the model is run on, in pixels: offsetWidth of the scroll
\* container and of the row of cells inside it
Layout == [container |-> 400, row |-> 800]

\* the proximity threshold of handleScroll
Threshold == 100

\* The markup of App: the container holds the row, the row holds one wrapper
\* per letter, the wrapper holds the cell.  The row starts after the left
\* padding of the container (px-[50vw]); a cell is 100 pixels of dots, 16 of
\* padding and 4 of border on either side, in a margin of 4 (w-[100px], p-4,
\* border-4, m-1); the wrappers are 96 pixels apart (gap-24).
AppMarkup ==
    [flat |-> FALSE, left |-> (Layout.container \div 2) + 4,
     pitch |-> 148 + 96, width |-> 140, cellHandlers |-> FALSE]

\* the same with the BrailleCell of components/BrailleCell.tsx in the
\* wrappers, which has touch handlers of its own
CellMarkup == [AppMarkup EXCEPT !.cellHandlers = TRUE]

\* a container whose children are the letter cells
FlatMarkup(l, p, w) ==
    [flat |-> TRUE, left |-> l, pitch |-> p, width |-> w, cellHandlers |-> FALSE]

\* Array.from(container.children): the elements handleScroll looks at.  The
\* scroll container has one child, the row <div className="flex gap-24 ...">
\* that holds the cells or the placeholder; the row has no data-char-index
\* and no data-braille-char attribute, with or without a word.  It starts
\* after the left padding of the container (50vw).
cells ==
    << [hasIndex |-> FALSE, index |-> -1, char |-> "",
        offsetLeft |-> Layout.container \div 2, offsetWidth |-> Layout.row] >>

\* the letter cells on screen, one per letter, each with data-char-index
\* and data-braille-char, where they lie in the scrolled content
letterCellsOf(m, data) ==
    [i \in 1..Len(data) |->
       [hasIndex |-> TRUE, index |-> i - 1, char |-> data[i].char,
        offsetLeft |-> m.left + (i - 1) * m.pitch, offsetWidth |-> m.width]]

\* What handleScroll reads of the children of a container in which the
\* letter cells are laid out themselves: a padding element, then the cells.
\* App does not render this; the loop of handleScroll is run over it to see
\* what it computes when there are cells among the children.
flatCells(m, data) ==
    << [hasIndex |-> FALSE, index |-> -1, char |-> "",
        offsetLeft |-> 0, offsetWidth |-> m.left] >>
    \o letterCellsOf(m, data)

\* Array.from(container.children) under the markup at hand
children == IF markup.flat THEN flatCells(markup, brailleData) ELSE cells

Abs(x) == IF x < 0 THEN -x ELSE x

\* Lengths halve in handleScroll (offsetWidth / 2); centres and distances
\* are kept doubled here, in half pixels, to stay in the integers.
\* cell.offsetLeft + (cell.offsetWidth / 2), doubled
cellCenter2(cell) == 2 * cell.offsetLeft + cell.offsetWidth

\* container.scrollLeft + (container.offsetWidth / 2), doubled
containerCenter2(scrollLeft) == 2 * scrollLeft + Layout.container

\* a loop that would let a later cell at the same distance win
RECURSIVE closestFromLast(_, _, _, _)
closestFromLast(cs, center2, i, best) ==
    IF i > Len(cs) THEN best
    ELSE IF ~cs[i].hasIndex THEN closestFromLast(cs, center2, i + 1, best)
    ELSE LET distance2 == Abs(center2 - cellCenter2(cs[i]))
         IN closestFromLast(cs, center2, i + 1,
               IF best = <<>> \/ distance2 <= best[1].minDistance2
                 THEN << [closestCell |-> cs[i], minDistance2 |-> distance2] >>
                 ELSE best)

\* the loop of handleScroll: <<>> while closestCell is null (minDistance
\* Infinity), else the closest cell seen so far and its distance (doubled)
RECURSIVE closestFrom(_, _, _, _)
closestFrom(cs, center2, i, best) ==
    IF i > Len(cs) THEN best
    ELSE IF ~cs[i].hasIndex THEN closestFrom(cs, center2, i + 1, best)
    ELSE LET distance2 == Abs(center2 - cellCenter2(cs[i]))
         IN closestFrom(cs, center2, i + 1,
               IF best = <<>> \/ distance2 < best[1].minDistance2
                 THEN << [closestCell |-> cs[i], minDistance2 |-> distance2] >>
                 ELSE best)

\* the children that carry data-char-index = index: one, or none
cellOf(cs, index) ==
    SelectSeq(cs, LAMBDA c : c.hasIndex /\ c.index = index)

\* getAttribute('data-braille-char') of the cell resolved, "" for null
brailleCharOf(cs, resolved) ==
    IF resolved = <<>> \/ cellOf(cs, resolved[1]) = <<>> THEN ""
    ELSE cellOf(cs, resolved[1])[1].char

\* a resolver that would always find the first letter
resolveFocusFirst(cs, center2) == << 0 >>

\* the index handleScroll resolves for a scroll position, <<>> for none
resolveFocus(cs, center2) ==
    LET best == closestFrom(cs, center2, 1, <<>>)
    IN IF best # <<>> /\ best[1].minDistance2 < 2 * Threshold
            /\ best[1].closestCell.index # -1
         THEN << best[1].closestCell.index >>
         ELSE <<>>

(***************************************************************************)
(* Strings.                                                                *)
(***************************************************************************)
RECURSIVE trimStart(_)
trimStart(s) ==
    IF s # <<>> /\ Head(s) = " " THEN trimStart(Tail(s)) ELSE s

RECURSIVE trimEnd(_)
trimEnd(s) ==
    IF s # <<>> /\ s[Len(s)] = " " THEN trimEnd(SubSeq(s, 1, Len(s) - 1)) ELSE s

trim(s) == trimEnd(trimStart(s))

\* a split that would keep the whole string
splitNone(s) == s

\* s.split(' ')[0]
RECURSIVE splitFirst(_)
splitFirst(s) ==
    IF s = <<>> \/ Head(s) = " " THEN <<>>
    ELSE <<Head(s)>> \o splitFirst(Tail(s))

\* `${n}` for the small numbers of the model, and parseInt of such a string
Digits == <<"0", "1", "2", "3", "4", "5", "6", "7", "8", "9">>
String(n) == Digits[n + 1]
parseInt(str) == CHOOSE n \in 0..9 : Digits[n + 1] = str

(***************************************************************************)
(* translateWord of services/geminiService.ts.                             *)
(***************************************************************************)
UNAVAILABLE == <<"UNAVAILABLE">>

\* the entries of MOCK_DICTIONARY for the words of the model
MOCK_DICTIONARY ==
    [k \in {<<"s", "o", "l">>, <<"n", "o">>} |->
        IF k = <<"s", "o", "l">> THEN <<"s", "u", "n">> ELSE <<"n", "o">>]

\* trim, lower-case, strip accents, drop everything but [a-z0-9ñ]
cleanWordOf(word) ==
    SelectSeq([i \in 1..Len(trim(word)) |-> stripAccents(toLowerCase(trim(word)[i]))],
              LAMBDA c : c \in {"s", "o", "l", "n", "u", "x", "y", "z"})

\* what the remote model may do: answer a word with a full stop, nothing, or
\* a full stop alone, or fail
RemoteOutcomes ==
    { [kind |-> "text", text |-> <<"o", "n", ".">>],
      [kind |-> "text", text |-> <<>>],
      [kind |-> "text", text |-> <<".">>],
      [kind |-> "throws", text |-> <<>>] }

\* the value translateWord resolves with, given what the remote call would do
translateWord(word, remote) ==
    LET cleanWord == cleanWordOf(word)
    IN IF cleanWord \in DOMAIN MOCK_DICTIONARY THEN MOCK_DICTIONARY[cleanWord]
       ELSE IF ~apiKey THEN UNAVAILABLE
       ELSE IF remote.kind = "throws" THEN UNAVAILABLE
       ELSE SelectSeq(trim(remote.text), LAMBDA c : c # ".")

\* the remote outcomes that matter for a word
remotesFor(word) ==
    IF cleanWordOf(word) \in DOMAIN MOCK_DICTIONARY \/ ~apiKey
      THEN { [kind |-> "throws", text |-> <<>>] }
      ELSE RemoteOutcomes

(***************************************************************************)
(* Inputs of the model.                                                    *)
(***************************************************************************)
\* final transcripts the recogniser may deliver: single words, two words
\* after a leading space, and nothing but a space
Transcripts ==
    { <<"S", "o", "l">>, <<" ", "n", "o", " ", "x">>, <<"x", "y", "z">>, <<" ">> }

\* container.scrollLeft at a scroll event
ScrollLefts == {0, 230, 280, 550}

\* the dots of a cell the finger is put on
TouchDots == {0, 1}

\* containers whose children are the letter cells: offsetLeft of the first
\* cell, distance from one cell to the next, offsetWidth of a cell.  With
\* 120/120/40 two cells are equally far from the centre at scrollLeft 0 and
\* the last cell is 100 pixels from it at scrollLeft 280; a width of 41 puts
\* the centres on half pixels; 126/244/148 is a cell of 148 pixels and a
\* gap of 96 with the first cell under the centre at scrollLeft 0.
FlatMarkups ==
    { FlatMarkup(l, p, w) :
        l \in {120, 126}, p \in {120, 244}, w \in {40, 41, 148} }

\* the hosts the model is run on: one with everything; one without speech
\* engine, vibration and API key; one without speech recognition
FullHost ==
    [speechSynthesis |-> TRUE, vibrate |-> TRUE, SpeechRecognition |-> TRUE,
     apiKey |-> TRUE]

BareHost ==
    [speechSynthesis |-> FALSE, vibrate |-> FALSE, SpeechRecognition |-> TRUE,
     apiKey |-> FALSE]

DeafHost ==
    [speechSynthesis |-> TRUE, vibrate |-> TRUE, SpeechRecognition |-> FALSE,
     apiKey |-> TRUE]

Hosts == {FullHost, BareHost, DeafHost}

(***************************************************************************)
(* Init: the state after the first render of App.                          *)
(***************************************************************************)
Point(kind, cell, dot) == [kind |-> kind, cell |-> cell, dot |-> dot]

NoTouch == Point("none", -1, -1)

Event(type, focus, dot) == [type |-> type, focus |-> focus, dot |-> dot]

Host(h) ==
    /\ speechSynthesis = h.speechSynthesis
    /\ vibrate = h.vibrate
    /\ SpeechRecognition = h.SpeechRecognition
    /\ apiKey = h.apiKey

Mounted ==
    /\ currentWord = <<>>
    /\ translatedWord = <<>>
    /\ isListening = FALSE
    /\ isTranslating = FALSE
    /\ displayMode = "spanish"
    /\ error = <<>>
    /\ audioFeedbackEnabled = TRUE
    /\ lastTouchedDotRef = <<>>
    /\ lastReadCharIndexRef = <<>>
    /\ finger = NoTouch
    /\ touchTarget = -1
    /\ lastTouchedElementRef = <<>>
    /\ recognitions = <<>>
    /\ translations = <<>>
    /\ pending = <<>>
    /\ calls = <<>>
    /\ vibrations = <<>>
    /\ threw = FALSE
    /\ ev = Event("mount", <<>>, <<>>)

Init == Mounted /\ markup = AppMarkup /\ \E h \in Hosts : Host(h)

(***************************************************************************)
(* Helpers of the actions.                                                 *)
(***************************************************************************)
\* navigator.vibrate(pattern) guarded by `if (navigator.vibrate)`
vibrateCall(vs, pattern) == IF vibrate THEN Append(vs, pattern) ELSE vs

\* what a handler did to the platform
Output(e, vs, thrown, event) ==
    /\ pending' = e.q
    /\ calls' = e.log
    /\ vibrations' = vs
    /\ threw' = thrown
    /\ ev' = event

\* useEffect(..., [currentWord, displayMode]): both refs are reset when the
\* render that follows the handler sees another currentWord or displayMode
effectResetsOnWordOnly(word, mode) == word # currentWord

effectResets(word, mode) == <<word, mode>> # <<currentWord, displayMode>>

\* The render after a handler set currentWord, translatedWord and displayMode
\* to word, translated and mode, and its effect.  A finger that rested on a
\* cell the new word no longer has is on no dot any more.
Render(word, translated, mode) ==
    /\ currentWord' = word
    /\ translatedWord' = translated
    /\ displayMode' = mode
    /\ IF effectResets(word, mode)
         THEN /\ lastReadCharIndexRef' = <<>>
              /\ lastTouchedDotRef' = <<>>
         ELSE UNCHANGED refVars
    /\ finger' = IF finger.kind = "dot"
                      /\ finger.cell >= Len(brailleDataOf(word, translated, mode))
                    THEN Point("gap", -1, -1)
                    ELSE finger
    /\ UNCHANGED <<touchTarget, lastTouchedElementRef>>

NoRender == UNCHANGED <<currentWord, translatedWord, displayMode, refVars, touchVars>>

Remove(s, i) == SubSeq(s, 1, i - 1) \o SubSeq(s, i + 1, Len(s))

Replace(s, i, v) == [s EXCEPT ![i] = v]

Outstanding == Len(recognitions) + Len(translations)

(***************************************************************************)
(* Dictation: handleListening and the callbacks of its recognition.        *)
(***************************************************************************)
\* a click on the record button, which is disabled={isListening || isTranslating}
handleListening ==
    /\ ~isListening /\ ~isTranslating
    /\ IF ~SpeechRecognition
         THEN /\ error' = << "Tu navegador no soporta voz." >>
              /\ Output(speak(Engine, << "Tu navegador no soporta reconocimiento de voz." >>,
                              "es-ES", 10),
                        <<>>, FALSE, Event("listen", <<>>, <<>>))
              /\ UNCHANGED recognitions
         ELSE /\ recognitions' = Append(recognitions, "starting")
              /\ Output(Engine, <<>>, FALSE, Event("listen", <<>>, <<>>))
              /\ UNCHANGED error
    /\ NoRender
    /\ UNCHANGED <<isListening, isTranslating, audioFeedbackEnabled, translations, hostVars>>

onstart(i) ==
    /\ recognitions[i] = "starting"
    /\ recognitions' = Replace(recognitions, i, "listening")
    /\ isListening' = TRUE
    /\ error' = <<>>
    /\ Output(Engine, vibrateCall(<<>>, <<50, 50, 50>>), FALSE, Event("onstart", <<>>, <<>>))
    /\ NoRender
    /\ UNCHANGED <<isTranslating, audioFeedbackEnabled, translations, hostVars>>

\* onresult, up to the await in handleTranslate
onresult(i, transcript) ==
    /\ recognitions[i] = "listening"
    /\ recognitions' = Replace(recognitions, i, "ending")
    /\ LET firstWord == splitFirst(trim(transcript))
       IN IF firstWord = <<>>
            THEN /\ NoRender
                 /\ Output(Engine, <<>>, FALSE, Event("onresult", <<>>, <<>>))
                 /\ UNCHANGED <<isTranslating, translations>>
            ELSE /\ Render(firstWord, translatedWord, "spanish")
                 /\ Output(speak(Engine, << "Palabra: " >> \o firstWord \o << ". Traduciendo." >>,
                                 "es-ES", 10),
                           <<>>, FALSE, Event("onresult", <<>>, <<>>))
                 /\ isTranslating' = TRUE
                 /\ translations' = Append(translations, firstWord)
    /\ UNCHANGED <<isListening, error, audioFeedbackEnabled, hostVars>>

\* an onerror that would drop the word
onerrorClearing(i) ==
    /\ recognitions[i] \in {"starting", "listening"}
    /\ recognitions' = Replace(recognitions, i, "ending")
    /\ isListening' = FALSE
    /\ error' = << "Error. Intenta de nuevo." >>
    /\ Output(speak(Engine, << "Error al escuchar." >>, "es-ES", 10),
              <<>>, FALSE, Event("onerror", <<>>, <<>>))
    /\ Render(<<>>, <<>>, "spanish")
    /\ UNCHANGED <<isTranslating, audioFeedbackEnabled, translations, hostVars>>

onerror(i) ==
    /\ recognitions[i] \in {"starting", "listening"}
    /\ recognitions' = Replace(recognitions, i, "ending")
    /\ isListening' = FALSE
    /\ error' = << "Error. Intenta de nuevo." >>
    /\ Output(speak(Engine, << "Error al escuchar." >>, "es-ES", 10),
              <<>>, FALSE, Event("onerror", <<>>, <<>>))
    /\ NoRender
    /\ UNCHANGED <<isTranslating, audioFeedbackEnabled, translations, hostVars>>

onend(i) ==
    /\ recognitions[i] = "ending"
    /\ recognitions' = Remove(recognitions, i)
    /\ isListening' = FALSE
    /\ Output(Engine, <<>>, FALSE, Event("onend", <<>>, <<>>))
    /\ NoRender
    /\ UNCHANGED <<isTranslating, error, audioFeedbackEnabled, translations, hostVars>>

\* a handleTranslate whose unavailable branch would leave the spinner on
handleTranslateStuck(k, remote) ==
    LET word == translations[k]
        translation == translateWord(word, remote)
    IN /\ translations' = Remove(translations, k)
       /\ IF translation = UNAVAILABLE
            THEN /\ Render(currentWord, word, "spanish")
                 /\ Output(speak(Engine, << "Traducción no disponible." >>, "es-ES", 10),
                           <<>>, FALSE, Event("translated", <<>>, <<>>))
                 /\ UNCHANGED isTranslating
            ELSE /\ Render(currentWord, translation, displayMode)
                 /\ Output(speakMixed(Engine, << "En inglés:" >>, translation, "en-US"),
                           <<>>, FALSE, Event("translated", <<>>, <<>>))
                 /\ isTranslating' = FALSE
       /\ UNCHANGED <<isListening, error, audioFeedbackEnabled, recognitions, hostVars>>

\* handleTranslate after `await translateWord(word)` resolved; translateWord
\* of services/geminiService.ts never rejects, so the catch block is not taken
handleTranslate(k, remote) ==
    LET word == translations[k]
        translation == translateWord(word, remote)
    IN /\ translations' = Remove(translations, k)
       /\ IF translation = UNAVAILABLE
            THEN /\ Render(currentWord, word, "spanish")
                 /\ Output(speak(Engine, << "Traducción no disponible." >>, "es-ES", 10),
                           <<>>, FALSE, Event("translated", <<>>, <<>>))
            ELSE /\ Render(currentWord, translation, displayMode)
                 /\ Output(speakMixed(Engine, << "En inglés:" >>, translation, "en-US"),
                           <<>>, FALSE, Event("translated", <<>>, <<>>))
       /\ isTranslating' = FALSE
       /\ UNCHANGED <<isListening, error, audioFeedbackEnabled, recognitions, hostVars>>

(***************************************************************************)
(* Buttons.                                                                *)
(***************************************************************************)
\* a toggle that would never be rejected
toggleLanguageAlways ==
    /\ currentWord # <<>>
    /\ LET newMode == IF displayMode = "spanish" THEN "english" ELSE "spanish"
           textToRead == IF newMode = "spanish" THEN currentWord ELSE translatedWord
           targetLang == IF newMode = "spanish" THEN "es-ES" ELSE "en-US"
       IN /\ Render(currentWord, translatedWord, newMode)
          /\ Output(IF textToRead # <<>>
                      THEN speakMixed(Engine,
                             IF newMode = "spanish" THEN << "Español" >> ELSE << "Inglés" >>,
                             textToRead, targetLang)
                      ELSE Engine,
                    <<>>, FALSE, Event("toggle", <<>>, <<>>))
    /\ UNCHANGED <<isListening, isTranslating, error, audioFeedbackEnabled, asyncVars, hostVars>>

\* the language button is disabled={!currentWord}
toggleLanguage ==
    /\ currentWord # <<>>
    /\ LET newMode == IF displayMode = "spanish" THEN "english" ELSE "spanish"
           textToRead == IF newMode = "spanish" THEN currentWord ELSE translatedWord
           targetLang == IF newMode = "spanish" THEN "es-ES" ELSE "en-US"
       IN IF newMode = "english" /\ (translatedWord = <<>> \/ translatedWord = UNAVAILABLE)
            THEN /\ NoRender
                 /\ Output(speak(Engine, << "No disponible." >>, "es-ES", 10),
                           <<>>, FALSE, Event("toggle", <<>>, <<>>))
            ELSE /\ Render(currentWord, translatedWord, newMode)
                 /\ Output(IF textToRead # <<>>
                             THEN speakMixed(Engine,
                                    IF newMode = "spanish" THEN << "Español" >> ELSE << "Inglés" >>,
                                    textToRead, targetLang)
                             ELSE Engine,
                           <<>>, FALSE, Event("toggle", <<>>, <<>>))
    /\ UNCHANGED <<isListening, isTranslating, error, audioFeedbackEnabled, asyncVars, hostVars>>

toggleAudioFeedback ==
    /\ LET newState == ~audioFeedbackEnabled
       IN /\ audioFeedbackEnabled' = newState
          /\ Output(speak(Engine,
                          IF newState THEN << "Sonido de puntos activado" >>
                                      ELSE << "Sonido de puntos desactivado" >>,
                          "es-ES", 10),
                    <<>>, FALSE, Event("audio", <<>>, <<>>))
    /\ NoRender
    /\ UNCHANGED <<isListening, isTranslating, error, asyncVars, hostVars>>

\* the button next to the word, rendered when activeText is non-empty
readWord ==
    /\ activeText # <<>>
    /\ Output(speak(Engine, activeText,
                    IF displayMode = "spanish" THEN "es-ES" ELSE "en-US", 10),
              <<>>, FALSE, Event("read", <<>>, <<>>))
    /\ NoRender
    /\ UNCHANGED <<isListening, isTranslating, error, audioFeedbackEnabled, asyncVars, hostVars>>

(***************************************************************************)
(* Scroll reading: handleScroll at a scroll event of the container.        *)
(***************************************************************************)
\* a test that would take every resolved index for a change
focusChangedAlways(resolved, charIndexRef) ==
    resolved # <<>>

\* index !== -1 && index !== lastReadCharIndexRef.current
focusChanged(resolved, charIndexRef) ==
    resolved # <<>> /\ resolved # charIndexRef

\* a tick that would take over what it resolved, none included
handleScrollClearing(scrollLeft) ==
    LET resolved == resolveFocus(children, containerCenter2(scrollLeft))
    IN /\ lastReadCharIndexRef' = resolved
       /\ Output(Engine, <<>>, FALSE, Event("scroll", resolved, <<>>))
       /\ UNCHANGED <<appVars, lastTouchedDotRef, touchVars, asyncVars, hostVars>>

\* a tick that would drop the dot token
handleScrollForgetting(scrollLeft) ==
    LET resolved == resolveFocus(children, containerCenter2(scrollLeft))
        changed == focusChanged(resolved, lastReadCharIndexRef)
        char == brailleCharOf(children, resolved)
    IN /\ lastReadCharIndexRef' = IF changed THEN resolved ELSE lastReadCharIndexRef
       /\ lastTouchedDotRef' = <<>>
       /\ IF changed /\ char # ""
            THEN Output(speak(Engine, << toUpperCase(char) >>,
                              IF displayMode = "spanish" THEN "es-ES" ELSE "en-US", 12),
                        vibrateCall(<<>>, <<20>>), FALSE, Event("scroll", resolved, <<>>))
            ELSE Output(Engine, <<>>, FALSE, Event("scroll", resolved, <<>>))
       /\ UNCHANGED <<appVars, touchVars, asyncVars, hostVars>>

\* a tick that would announce a letter whatever it resolved
handleScrollAnnouncing(scrollLeft) ==
    /\ Output(speak(Engine, << "S" >>, "es-ES", 12), vibrateCall(<<>>, <<20>>),
              FALSE, Event("scroll", <<>>, <<>>))
    /\ UNCHANGED <<appVars, refVars, touchVars, asyncVars, hostVars>>

handleScroll(scrollLeft) ==
    LET resolved == resolveFocus(children, containerCenter2(scrollLeft))
        changed == focusChanged(resolved, lastReadCharIndexRef)
        char == brailleCharOf(children, resolved)
    IN /\ lastReadCharIndexRef' = IF changed THEN resolved ELSE lastReadCharIndexRef
       /\ IF changed /\ char # ""
            THEN Output(speak(Engine, << toUpperCase(char) >>,
                              IF displayMode = "spanish" THEN "es-ES" ELSE "en-US", 12),
                        vibrateCall(<<>>, <<20>>), FALSE, Event("scroll", resolved, <<>>))
            ELSE Output(Engine, <<>>, FALSE, Event("scroll", resolved, <<>>))
       /\ UNCHANGED <<appVars, lastTouchedDotRef, touchVars, asyncVars, hostVars>>

(***************************************************************************)
(* The speech engine finishes the utterance it is speaking.                *)
(***************************************************************************)
UtteranceEnd ==
    /\ pending # <<>>
    /\ Output([q |-> Tail(pending), log |-> <<>>], <<>>, FALSE, Event("spoken", <<>>, <<>>))
    /\ UNCHANGED <<appVars, refVars, touchVars, asyncVars, hostVars>>

(***************************************************************************)
(* Touch: onTouchStart / onTouchMove / onTouchEnd of the scroll container. *)
(***************************************************************************)
\* where the finger is: on dot `dot` of cell `cell`, on the container but on
\* no dot, or where document.elementFromPoint finds no element
DotPoints ==
    { Point("dot", c, d) : c \in 0..(Len(brailleData) - 1), d \in TouchDots }

GapPoint == Point("gap", -1, -1)

OffPoint == Point("off", -1, -1)

\* data-dot-index={index} and data-active={isActive} of the dot elements a
\* cell renders, as getAttribute returns them
dataDotIndex(cell, dot) == String(dot)

\* a cell that would mark every dot active
dataActiveAlways(cell, dot) == "true"

dataActive(cell, dot) ==
    IF brailleData[cell + 1].dots[dot + 1] THEN "true" ELSE "false"

\* `${lastReadCharIndexRef.current}-${dotIndexStr}`
uniqueDotIdOf(charIndexRef, dotIndexStr) ==
    << IF charIndexRef = <<>> THEN "null" ELSE String(charIndexRef[1]), "-", dotIndexStr >>

\* a cue that would speak the index of the dot as it is
dotAudioZeroBased(o, dotIndex) ==
    IF speechSynthesis
      THEN [o EXCEPT !.e = speakCall(o.e, Utterance(<< String(dotIndex) >>, "es-ES", 25))]
      ELSE [o EXCEPT !.thrown = TRUE]

\* the speech of handleBrailleTouch for an active dot: no guard, no cancel
dotAudio(o, dotIndex) ==
    IF speechSynthesis
      THEN [o EXCEPT !.e = speakCall(o.e, Utterance(<< String(dotIndex + 1) >>, "es-ES", 25))]
      ELSE [o EXCEPT !.thrown = TRUE]

\* a handler that would not keep the token
forgetDot(o, uniqueDotId) == o

\* lastTouchedDotRef.current = uniqueDotId
rememberDot(o, uniqueDotId) == [o EXCEPT !.dotRef = << uniqueDotId >>]

\* a handler that would speak the digit with the sound switched off
handleBrailleTouchLoud(o, point) ==
    IF point.kind = "off" THEN o
    ELSE IF point.kind = "dot"
      THEN LET dotIndexStr == dataDotIndex(point.cell, point.dot)
               isActiveStr == dataActive(point.cell, point.dot)
               uniqueDotId == uniqueDotIdOf(lastReadCharIndexRef, dotIndexStr)
           IN IF dotIndexStr # "" /\ << uniqueDotId >> # o.dotRef
                THEN LET dotIndex == parseInt(dotIndexStr)
                         isActive == isActiveStr = "true"
                         o1 == rememberDot(o, uniqueDotId)
                         o2 == [o1 EXCEPT !.vs = vibrateCall(o1.vs,
                                                   IF isActive THEN <<50>> ELSE <<10>>)]
                     IN IF isActive
                          THEN dotAudio(o2, dotIndex)
                          ELSE o2
                ELSE o
      ELSE [o EXCEPT !.dotRef = <<>>]

\* handleBrailleTouch; o is the token and the platform as the handler finds them
handleBrailleTouch(o, point) ==
    IF point.kind = "off" THEN o
    ELSE IF point.kind = "dot"
      THEN LET dotIndexStr == dataDotIndex(point.cell, point.dot)
               isActiveStr == dataActive(point.cell, point.dot)
               uniqueDotId == uniqueDotIdOf(lastReadCharIndexRef, dotIndexStr)
           IN IF dotIndexStr # "" /\ << uniqueDotId >> # o.dotRef
                THEN LET dotIndex == parseInt(dotIndexStr)
                         isActive == isActiveStr = "true"
                         o1 == rememberDot(o, uniqueDotId)
                         o2 == [o1 EXCEPT !.vs = vibrateCall(o1.vs,
                                                   IF isActive THEN <<50>> ELSE <<10>>)]
                     IN IF audioFeedbackEnabled /\ isActive
                          THEN dotAudio(o2, dotIndex)
                          ELSE o2
                ELSE o
      ELSE [o EXCEPT !.dotRef = <<>>]

\* triggerFeedback of the cell: the pulse, then cancel and, for a raised
\* dot, the digit at rate 2.0, both behind `if (window.speechSynthesis)`
triggerFeedback(o, index, isActive) ==
    LET o1 == [o EXCEPT !.vs = vibrateCall(o.vs, IF isActive THEN <<50>> ELSE <<10>>)]
    IN IF ~speechSynthesis THEN o1
       ELSE IF isActive
         THEN [o1 EXCEPT !.e = speakCall(cancelCall(o1.e),
                                         Utterance(<< String(index + 1) >>, "es-ES", 20))]
         ELSE [o1 EXCEPT !.e = cancelCall(o1.e)]

\* handleTouchMove of the cell the touch started on (onTouchStart and
\* onTouchMove), with processDotInteraction; the element under the finger is
\* the dot <<cell, dot>>, and isActive is dots[index] of the cell that
\* handles the event
handleTouchMove(o, point, target) ==
    IF point.kind = "dot"
      THEN LET element == << point.cell, point.dot >>
           IN IF o.elementRef = << element >> THEN o
              ELSE LET index == parseInt(dataDotIndex(point.cell, point.dot))
                       isActive == brailleData[target + 1].dots[index + 1]
                   IN triggerFeedback([o EXCEPT !.elementRef = << element >>],
                                      index, isActive)
      ELSE [o EXCEPT !.elementRef = <<>>]

TouchOutcome0 ==
    [dotRef |-> lastTouchedDotRef, elementRef |-> lastTouchedElementRef,
     e |-> Engine, vs |-> <<>>, thrown |-> FALSE]

\* one touchstart or touchmove with the finger at `point`, of a touch that
\* started on cell `target` (-1: on no cell): the event reaches the handler
\* of that cell, when the cell has one, and then bubbles to the container
Touch(point, target) ==
    LET o0 == IF markup.cellHandlers /\ target >= 0
                THEN handleTouchMove(TouchOutcome0, point, target)
                ELSE TouchOutcome0
        o == handleBrailleTouch(o0, point)
    IN /\ Len(o.e.q) <= MaxQueue
       /\ finger' = point
       /\ touchTarget' = target
       /\ lastTouchedElementRef' = o.elementRef
       /\ lastTouchedDotRef' = o.dotRef
       /\ Output(o.e, o.vs, o.thrown,
                 Event("touch", <<>>,
                       IF point.kind = "dot" THEN <<point.cell, point.dot>> ELSE <<>>))
       /\ UNCHANGED <<appVars, lastReadCharIndexRef, asyncVars, hostVars>>

\* the target of a touch matters where the cells have handlers
TouchStart(point) ==
    /\ finger.kind = "none"
    /\ Touch(point, IF markup.cellHandlers /\ point.kind = "dot" THEN point.cell ELSE -1)

TouchMove(point) ==
    /\ finger.kind # "none"
    /\ Touch(point, touchTarget)

\* onTouchEnd
TouchEnd ==
    /\ finger.kind # "none"
    /\ finger' = NoTouch
    /\ touchTarget' = -1
    /\ lastTouchedElementRef' = <<>>
    /\ lastTouchedDotRef' = <<>>
    /\ Output(Engine, <<>>, FALSE, Event("touchend", <<>>, <<>>))
    /\ UNCHANGED <<appVars, lastReadCharIndexRef, asyncVars, hostVars>>

(***************************************************************************)
(* The system.                                                             *)
(***************************************************************************)
Next ==
    \/ Outstanding < MaxOutstanding /\ handleListening
    \/ \E i \in 1..Len(recognitions) : onstart(i)
    \/ \E i \in 1..Len(recognitions), t \in Transcripts : onresult(i, t)
    \/ \E i \in 1..Len(recognitions) : onerror(i)
    \/ \E i \in 1..Len(recognitions) : onend(i)
    \/ \E k \in 1..Len(translations) :
          \E r \in remotesFor(translations[k]) : handleTranslate(k, r)
    \/ toggleLanguage
    \/ toggleAudioFeedback
    \/ readWord
    \/ \E x \in ScrollLefts : handleScroll(x)
    \/ \E p \in DotPoints \cup {GapPoint} : TouchStart(p)
    \/ \E p \in DotPoints \cup {GapPoint, OffPoint} : TouchMove(p)
    \/ TouchEnd
    \/ UtteranceEnd

Spec == Init /\ [][Next]_vars

(***************************************************************************)
(* The reading cursor under word replacement: dictation, translation, the  *)
(* language toggle, scroll ticks and the finger on the dots, on the hosts  *)
(* that can dictate.  The engine is slower than the events.                *)
(***************************************************************************)
CursorTranscripts == { <<"S", "o", "l">>, <<"x", "y", "z">> }

InitCursor == Mounted /\ markup = AppMarkup /\ \E h \in {FullHost, BareHost} : Host(h)

NextCursor ==
    \/ Outstanding < MaxOutstanding /\ handleListening
    \/ \E i \in 1..Len(recognitions) : onstart(i)
    \/ \E i \in 1..Len(recognitions), t \in CursorTranscripts : onresult(i, t)
    \/ \E i \in 1..Len(recognitions) : onend(i)
    \/ \E k \in 1..Len(translations) :
          \E r \in remotesFor(translations[k]) : handleTranslate(k, r)
    \/ toggleLanguage
    \/ \E x \in ScrollLefts : handleScroll(x)
    \/ \E p \in DotPoints \cup {GapPoint} : TouchStart(p)
    \/ \E p \in DotPoints \cup {GapPoint, OffPoint} : TouchMove(p)
    \/ TouchEnd

SpecCursor == InitCursor /\ [][NextCursor]_vars

(***************************************************************************)
(* Reading a loaded word: scroll ticks, the finger on the dots, the sound  *)
(* switch, the language toggle and the engine finishing utterances, from   *)
(* the state in which "Sol" was dictated and translated and the            *)
(* recognition ended, with and without a speech engine.                    *)
(***************************************************************************)
Loaded ==
    /\ currentWord = <<"S", "o", "l">>
    /\ translatedWord = <<"s", "u", "n">>
    /\ isListening = FALSE
    /\ isTranslating = FALSE
    /\ displayMode = "spanish"
    /\ error = <<>>
    /\ audioFeedbackEnabled = TRUE
    /\ lastTouchedDotRef = <<>>
    /\ lastReadCharIndexRef = <<>>
    /\ finger = NoTouch
    /\ touchTarget = -1
    /\ lastTouchedElementRef = <<>>
    /\ recognitions = <<>>
    /\ translations = <<>>
    /\ pending = <<>>
    /\ calls = <<>>
    /\ vibrations = <<>>
    /\ threw = FALSE
    /\ ev = Event("onend", <<>>, <<>>)

InitTouch == Loaded /\ markup = AppMarkup /\ \E h \in {FullHost, BareHost} : Host(h)

NextTouch ==
    \/ \E x \in ScrollLefts : handleScroll(x)
    \/ \E p \in DotPoints \cup {GapPoint} : TouchStart(p)
    \/ \E p \in DotPoints \cup {GapPoint, OffPoint} : TouchMove(p)
    \/ TouchEnd
    \/ toggleAudioFeedback
    \/ toggleLanguage
    \/ UtteranceEnd

SpecTouch == InitTouch /\ [][NextTouch]_vars

(***************************************************************************)
(* Everything that talks through speak and speakMixed: dictation with its  *)
(* failures, translation, the buttons and scroll ticks, on every host,     *)
(* with the engine finishing utterances in between.                        *)
(***************************************************************************)
NextSpeech ==
    \/ Outstanding < MaxOutstanding /\ handleListening
    \/ \E i \in 1..Len(recognitions) : onstart(i)
    \/ \E i \in 1..Len(recognitions), t \in Transcripts : onresult(i, t)
    \/ \E i \in 1..Len(recognitions) : onerror(i)
    \/ \E i \in 1..Len(recognitions) : onend(i)
    \/ \E k \in 1..Len(translations) :
          \E r \in remotesFor(translations[k]) : handleTranslate(k, r)
    \/ toggleLanguage
    \/ toggleAudioFeedback
    \/ readWord
    \/ \E x \in ScrollLefts : handleScroll(x)
    \/ UtteranceEnd

SpecSpeech == Init /\ [][NextSpeech]_vars

(***************************************************************************)
(* Dictation alone, on every host, with room for a second recognition      *)
(* while the first is under way; LiveDictation adds that a translateWord   *)
(* call that has settled is followed by the rest of handleTranslate, as    *)
(* the continuation of an await is.                                        *)
(***************************************************************************)
NextDictation ==
    \/ Outstanding < MaxDictations /\ handleListening
    \/ \E i \in 1..Len(recognitions) : onstart(i)
    \/ \E i \in 1..Len(recognitions), t \in Transcripts : onresult(i, t)
    \/ \E i \in 1..Len(recognitions) : onerror(i)
    \/ \E i \in 1..Len(recognitions) : onend(i)
    \/ \E k \in 1..Len(translations) :
          \E r \in remotesFor(translations[k]) : handleTranslate(k, r)
    \/ toggleLanguage

SpecDictation == Init /\ [][NextDictation]_vars

translationSettles ==
    \E k \in 1..Len(translations) :
       \E r \in remotesFor(translations[k]) : handleTranslate(k, r)

LiveDictation == SpecDictation /\ WF_vars(translationSettles)

(***************************************************************************)
(* The loop of handleScroll over letter cells: the word "Sol" loaded, in   *)
(* the markup of App and in containers that hold the letter cells, with    *)
(* scroll ticks, the finger on the dots and the language toggle.           *)
(***************************************************************************)
InitResolver ==
    /\ Loaded
    /\ markup \in FlatMarkups \cup {AppMarkup}
    /\ \E h \in {FullHost, BareHost} : Host(h)

NextResolver ==
    \/ \E x \in ScrollLefts : handleScroll(x)
    \/ \E p \in DotPoints \cup {GapPoint} : TouchStart(p)
    \/ \E p \in DotPoints \cup {GapPoint, OffPoint} : TouchMove(p)
    \/ TouchEnd
    \/ toggleLanguage

SpecResolver == InitResolver /\ [][NextResolver]_vars

(***************************************************************************)
(* Failing dictation while a word is explored: the word "Sol" loaded, on   *)
(* every host, in the markup of App and in a container that holds the      *)
(* letter cells; the record button with recognitions that start, fail and  *)
(* end, scroll ticks and the finger on the dots.                           *)
(***************************************************************************)
InitRecovery ==
    /\ Loaded
    /\ markup \in {AppMarkup, FlatMarkup(120, 120, 40)}
    /\ \E h \in Hosts : Host(h)

NextRecovery ==
    \/ Outstanding < MaxOutstanding /\ handleListening
    \/ \E i \in 1..Len(recognitions) : onstart(i)
    \/ \E i \in 1..Len(recognitions) : onerror(i)
    \/ \E i \in 1..Len(recognitions) : onend(i)
    \/ \E x \in ScrollLefts : handleScroll(x)
    \/ \E p \in DotPoints \cup {GapPoint} : TouchStart(p)
    \/ \E p \in DotPoints \cup {GapPoint, OffPoint} : TouchMove(p)
    \/ TouchEnd

SpecRecovery == InitRecovery /\ [][NextRecovery]_vars

(***************************************************************************)
(* The language button before and after the translation arrives: a word   *)
(* was dictated and its recognition has ended, translateWord is under way; *)
(* in the markup of App and in a container that holds the letter cells,    *)
(* with scroll ticks and the finger on the dots.  The words are "xyz" and  *)
(* the word that reads as the sentinel of translateWord, kept as one token *)
(* as the sentinel is.                                                     *)
(***************************************************************************)
ToggleWords == { <<"x", "y", "z">>, UNAVAILABLE }

Dictated(word) ==
    /\ currentWord = word
    /\ translatedWord = <<>>
    /\ isListening = FALSE
    /\ isTranslating = TRUE
    /\ displayMode = "spanish"
    /\ error = <<>>
    /\ audioFeedbackEnabled = TRUE
    /\ lastTouchedDotRef = <<>>
    /\ lastReadCharIndexRef = <<>>
    /\ finger = NoTouch
    /\ touchTarget = -1
    /\ lastTouchedElementRef = <<>>
    /\ recognitions = <<>>
    /\ translations = << word >>
    /\ pending = <<>>
    /\ calls = <<>>
    /\ vibrations = <<>>
    /\ threw = FALSE
    /\ ev = Event("onend", <<>>, <<>>)

InitToggle ==
    /\ \E word \in ToggleWords : Dictated(word)
    /\ markup \in {AppMarkup, FlatMarkup(120, 120, 40)}
    /\ \E h \in {FullHost, BareHost} : Host(h)

NextToggle ==
    \/ \E k \in 1..Len(translations) :
          \E r \in remotesFor(translations[k]) : handleTranslate(k, r)
    \/ toggleLanguage
    \/ \E x \in ScrollLefts : handleScroll(x)
    \/ \E p \in DotPoints \cup {GapPoint} : TouchStart(p)
    \/ \E p \in DotPoints \cup {GapPoint, OffPoint} : TouchMove(p)
    \/ TouchEnd

SpecToggle == InitToggle /\ [][NextToggle]_vars

(***************************************************************************)
(* The cells of a translation: "xyz" was dictated on a host with an API    *)
(* key and the remote model answers with capitals, with a letter that has  *)
(* a diacritic, with a character that is no letter; the language button    *)
(* shows the answer, the finger reads its dots.                            *)
(***************************************************************************)
BrailleRemotes ==
    { [kind |-> "text", text |-> <<"S", "ö", "n">>],
      [kind |-> "text", text |-> <<"o", "-", "u">>],
      [kind |-> "text", text |-> <<"L", "u", "z">>] }

InitBraille ==
    /\ Dictated(<<"x", "y", "z">>)
    /\ markup = AppMarkup
    /\ Host(FullHost)

NextBraille ==
    \/ \E k \in 1..Len(translations) :
          \E r \in BrailleRemotes : handleTranslate(k, r)
    \/ toggleLanguage
    \/ toggleAudioFeedback
    \/ \E p \in DotPoints \cup {GapPoint} : TouchStart(p)
    \/ \E p \in DotPoints \cup {GapPoint} : TouchMove(p)
    \/ TouchEnd
    \/ UtteranceEnd

SpecBraille == InitBraille /\ [][NextBraille]_vars

(***************************************************************************)
(* The word "Sol" read with the BrailleCell of components/BrailleCell.tsx  *)
(* in the wrappers: every touch event reaches handleTouchMove of the cell  *)
(* the touch started on and handleBrailleTouch of the container.           *)
(***************************************************************************)
InitCell == Loaded /\ markup = CellMarkup /\ \E h \in {FullHost, BareHost} : Host(h)

NextCell ==
    \/ \E p \in DotPoints \cup {GapPoint} : TouchStart(p)
    \/ \E p \in DotPoints \cup {GapPoint, OffPoint} : TouchMove(p)
    \/ TouchEnd
    \/ toggleAudioFeedback
    \/ readWord
    \/ UtteranceEnd

SpecCell == InitCell /\ [][NextCell]_vars

(***************************************************************************)
(* Properties.                                                             *)
(***************************************************************************)
\* the last handler was silent: no call on the speech engine, no vibration
Silent == calls = <<>> /\ vibrations = <<>>

NoFocus == lastReadCharIndexRef = <<>> /\ lastTouchedDotRef = <<>>

C3_ResetOnWordChange ==
    [][activeText' # activeText => NoFocus']_vars

spokenBy(log) ==
    LET speaks == SelectSeq(log, LAMBDA c : c.call = "speak")
    IN [i \in 1..Len(speaks) |-> speaks[i].u]

\* the log of one speech operation: a cancel, then only speak calls
CancelsFirst(log) ==
    /\ log[1].call = "cancel"
    /\ \A i \in 2..Len(log) : log[i].call = "speak"

\* C5: after every handler that talks to the speech engine, the dot cue
\* included, the engine was cancelled first and the pending utterances are
\* exactly those of that handler.
C5_PendingOfLatestOperation ==
    calls # <<>> => CancelsFirst(calls) /\ pending = spokenBy(calls)

\* C6: a handler that talks through speak or speakMixed calls cancel before
\* every speak, so that the pending utterances are exactly its own; a speak
\* issued while both utterances of a speakMixed are pending leaves its single
\* utterance pending and nothing else.
C6_CancelPrecedesSpeak ==
    [][/\ calls' # <<>> => CancelsFirst(calls') /\ pending' = spokenBy(calls')
       /\ Len(calls) = 3 /\ pending = spokenBy(calls) /\ Len(calls') = 2
            => pending' = << calls'[2].u >>]_vars

\* the word was read aloud in English mode: one cancel, one speak, and the
\* utterance of that speak alone pending
C6_SpeakSupersedes ==
    /\ ev.type = "read"
    /\ displayMode = "english"
    /\ Len(calls) = 2
    /\ calls[1].call = "cancel"
    /\ pending = << calls[2].u >>
    /\ pending[1].text = translatedWord

\* what speakMixed(introText, contentText, contentLang) leaves behind
MixedResult(introText, contentText, contentLang) ==
    /\ Len(calls') = 3
    /\ calls'[1].call = "cancel"
    /\ calls'[2].call = "speak" /\ calls'[3].call = "speak"
    /\ calls'[2].u.text = introText /\ calls'[2].u.lang = "es-ES"
    /\ calls'[3].u.text = contentText /\ calls'[3].u.lang = contentLang
    /\ pending' = << calls'[2].u, calls'[3].u >>

\* C7: where a speech engine is present, the two callers of speakMixed - a
\* translation that is available and a language toggle that changes the
\* mode - leave exactly two utterances pending after one cancel: the intro in
\* es-ES, then the content in the content language.
C7_MixedEnqueuesTwo ==
    [][speechSynthesis =>
         /\ \A k \in 1..Len(translations) :
               \A r \in remotesFor(translations[k]) :
                 handleTranslate(k, r) /\ translateWord(translations[k], r) # UNAVAILABLE
                   => MixedResult(<< "En inglés:" >>, translateWord(translations[k], r), "en-US")
         /\ toggleLanguage /\ displayMode' # displayMode /\ activeText' # <<>>
               => MixedResult(IF displayMode' = "spanish" THEN << "Español" >> ELSE << "Inglés" >>,
                              activeText',
                              IF displayMode' = "spanish" THEN "es-ES" ELSE "en-US")]_vars

\* a translation arrived and was announced: intro in es-ES, then the
\* translation in en-US
C7_TranslationAnnounced ==
    /\ ev.type = "translated"
    /\ Len(pending) = 2
    /\ pending[1].text = << "En inglés:" >> /\ pending[1].lang = "es-ES"
    /\ pending[2].text = <<"s", "u", "n">> /\ pending[2].lang = "en-US"

\* C8: on a host without speech engine no handler throws.
C8_NeverThrows ==
    ~speechSynthesis => ~threw

\* the last handler gave feedback: a vibration, a call on the speech engine,
\* or the attempt of one
Fed == vibrations # <<>> \/ calls # <<>> \/ threw

\* the token handleBrailleTouch builds for the dot the finger is on
tokenOf(point) == uniqueDotIdOf(lastReadCharIndexRef, String(point.dot))

\* the finger is on a dot whose token is not the one kept
TokenDiffers(point) ==
    point.kind = "dot" /\ << tokenOf(point) >> # lastTouchedDotRef

C11_NoDotsWithoutFocus ==
    [][ev'.type = "touch" /\ lastReadCharIndexRef = <<>> =>
          ~Fed' /\ lastTouchedDotRef' = <<>>]_vars

\* what handleBrailleTouch leaves on the speech engine for the dot the
\* finger is on: the digit of the dot at rate 2.5 in es-ES, cancelling nothing
dotCue(point) ==
    << [call |-> "speak", u |-> Utterance(<< String(point.dot + 1) >>, "es-ES", 25)] >>

C13_OneSessionInFlight ==
    [][Len(recognitions') > Len(recognitions) =>
          /\ \A i \in 1..Len(recognitions) : recognitions[i] = "ending"
          /\ translations = <<>>]_vars

\* C15: when translateWord resolves with the sentinel for a dictated word,
\* translatedWord becomes that word, and that word is the text on display
\* in Spanish mode as well as in English mode.
C15_FallbackIsTheWord ==
    [][\A k \in 1..Len(translations) :
          \A r \in remotesFor(translations[k]) :
            handleTranslate(k, r) /\ translateWord(translations[k], r) = UNAVAILABLE
              => /\ translatedWord' = translations[k]
                 /\ activeTextOf(currentWord', translatedWord', "spanish") = translations[k]
                 /\ activeTextOf(currentWord', translatedWord', "english") = translations[k]]_vars

\* a user-visible failure was reported: a status message is set and, where
\* there is a speech engine, a message was spoken
Reported == error' # <<>> /\ (speechSynthesis => calls' # <<>>)

\* C16: every user-visible failure - no speech recognition on the host, a
\* recognition error, a translation that is unavailable - sets a status
\* message and speaks one.
C16_FailuresReported ==
    [][/\ handleListening /\ ~SpeechRecognition => Reported
       /\ \A i \in 1..Len(recognitions) : onerror(i) => Reported
       /\ \A k \in 1..Len(translations) :
            \A r \in remotesFor(translations[k]) :
              handleTranslate(k, r) /\ translateWord(translations[k], r) = UNAVAILABLE
                => Reported]_vars

\* C17: the controller does not stay in the translating state: whenever
\* isTranslating is set, it is cleared later, the translateWord call having
\* settled with a translation or with the sentinel (which is also what a
\* failure of the remote service gives).
C17_TranslatingEnds ==
    isTranslating ~> ~isTranslating

\* a translation that failed remotely has settled: the spinner is off and
\* the record button is enabled again
C17_SettledAfterFailure ==
    /\ ev.type = "translated"
    /\ apiKey
    /\ translatedWord = <<"x", "y", "z">>
    /\ translations = <<>> /\ recognitions = <<>>
    /\ ~isTranslating /\ ~isListening

\* the letter cells on screen, and how far the centre of one is from the
\* centre of the viewport at scrollLeft x, doubled
letterCells ==
    { letterCellsOf(markup, brailleData)[i] : i \in 1..Len(brailleData) }

distance2(cell, x) == Abs(containerCenter2(x) - cellCenter2(cell))

\* no letter cell is within the proximity threshold at scrollLeft x
NoCellNear(x) == \A c \in letterCells : distance2(c, x) >= 2 * Threshold

\* C18: a scroll tick that resolves none - as every tick does at which no
\* letter cell is within the proximity threshold - leaves the focused letter
\* index and the dot identity token as they are and calls neither the
\* speech engine nor vibrate; what is pending stays pending.
C18_MissIsSilent ==
    [][\A x \in ScrollLefts :
          handleScroll(x) =>
            /\ NoCellNear(x) => ev'.focus = <<>>
            /\ ev'.focus = <<>> =>
                 /\ UNCHANGED refVars
                 /\ Silent' /\ pending' = pending]_vars

\* a tick between the cells while a letter is focused, a dot is touched and
\* its cue is pending: index, token and cue are kept
C18_MissKeepsFocus ==
    /\ ev.type = "scroll"
    /\ markup.flat
    /\ ev.focus = <<>>
    /\ lastReadCharIndexRef = <<2>>
    /\ lastTouchedDotRef = << <<"2", "-", "0">> >>
    /\ pending # <<>>
    /\ Silent
    /\ \E x \in ScrollLefts : NoCellNear(x)

\* a scroll tick resolves the nearest letter cell within the threshold
C19_Step ==
    \A x \in ScrollLefts :
       handleScroll(x) =>
         /\ ev'.focus = <<>> <=> NoCellNear(x)
         /\ ev'.focus # <<>> =>
              \E c \in letterCells :
                 /\ c.index = ev'.focus[1]
                 /\ distance2(c, x) < 2 * Threshold
                 /\ \A d \in letterCells : distance2(c, x) <= distance2(d, x)

\* C19: the index a scroll tick resolves is that of a letter cell whose
\* centre is nearest to the centre of the viewport among all letter cells
\* and less than 100 pixels from it; the tick resolves none exactly when
\* there is no letter cell or the nearest one is 100 pixels away or more.
C19_NearestWithinThreshold ==
    [][C19_Step]_vars

\* C19 for the containers that hold the letter cells as children: there
\* the loop of handleScroll finds the nearest cell within the threshold
C19_NearestAmongChildren ==
    [][markup.flat => C19_Step]_vars

\* two letter cells are equally far from the centre at scrollLeft x, and no
\* letter cell is nearer
Tie(c, d, x) ==
    /\ c.index < d.index
    /\ distance2(c, x) = distance2(d, x)
    /\ \A e \in letterCells : distance2(c, x) <= distance2(e, x)

letterCue(i) ==
    << [call |-> "cancel", u |-> NoUtterance],
       [call |-> "speak",
        u |-> Utterance(<< toUpperCase(brailleData[i + 1].char) >>,
                        IF displayMode = "spanish" THEN "es-ES" ELSE "en-US", 12)] >>

C23_TokenNoneOffDots ==
    [][/\ TouchEnd => lastTouchedDotRef' = <<>>
       /\ \A p \in {GapPoint, OffPoint} :
             (TouchStart(p) \/ TouchMove(p))
               => lastTouchedDotRef' = <<>>]_vars

C25_ReplacementCancelsFirst ==
    [][/\ <<currentWord, translatedWord, displayMode>>'
            # <<currentWord, translatedWord, displayMode>>
       /\ speechSynthesis
       => /\ calls' # <<>>
          /\ CancelsFirst(calls')
          /\ pending' = spokenBy(calls')]_vars

\* C25, its case: the word is switched to English while the digit of a dot
\* is still pending; only the announcement of the switch is pending after.
C25_ToggleDropsDotCue ==
    /\ ev.type = "toggle"
    /\ displayMode = "english"
    /\ finger.kind = "dot"
    /\ Len(calls) = 3
    /\ pending = << Utterance(<< "Inglés" >>, "es-ES", 10),
                    Utterance(<<"s", "u", "n">>, "en-US", 9) >>

\* the first word of a transcript: from its first character that is no
\* space up to the character before the next space
FirstWordOf(t) ==
    LET letters == { i \in 1..Len(t) : t[i] # " " }
    IN IF letters = {} THEN <<>>
       ELSE LET a == CHOOSE i \in letters : \A j \in letters : i <= j
                b == CHOOSE i \in a..Len(t) :
                        /\ \A j \in a..i : t[j] # " "
                        /\ i = Len(t) \/ t[i + 1] = " "
            IN SubSeq(t, a, b)

\* C26: a recognition result whose first word is non-empty sets currentWord
\* to that word alone, sets displayMode to spanish and starts one translation
\* of it in the same step; a result whose first word is empty changes no
\* state, speaks nothing and starts no translation.
C26_FirstWordOnly ==
    [][\A i \in 1..Len(recognitions), t \in Transcripts :
          onresult(i, t) =>
            LET w == FirstWordOf(t)
            IN IF w # <<>>
                 THEN /\ currentWord' = w
                      /\ displayMode' = "spanish"
                      /\ isTranslating'
                      /\ translations' = Append(translations, w)
                 ELSE /\ UNCHANGED <<appVars, refVars, translations>>
                      /\ Silent' /\ pending' = pending]_vars

\* C26, its case: the transcript " no x" was delivered; the word is "no" and
\* its translation is the only one under way.
C26_SecondWordDropped ==
    /\ ev.type = "onresult"
    /\ currentWord = <<"n", "o">>
    /\ displayMode = "spanish"
    /\ isTranslating
    /\ translations = << <<"n", "o">> >>
    /\ speechSynthesis =>
         pending = << Utterance(<< "Palabra: ", "n", "o", ". Traduciendo." >>, "es-ES", 10) >>

\* a click on the record button of a browser without speech recognition
unsupported == handleListening /\ ~SpeechRecognition

\* C27: when speech recognition is unsupported or a recognition reports an
\* error, the word, its translation, the display mode, the focused letter
\* index and the dot token stay as they are, the cells on screen are the
\* same, no translation is started and isListening is false afterwards; the
\* scroll tick that follows the failure still moves the focus and announces
\* the letter.
C27_FailureKeepsExploration ==
    [][/\ unsupported \/ (\E i \in 1..Len(recognitions) : onerror(i))
            => /\ UNCHANGED <<currentWord, translatedWord, displayMode, refVars, finger>>
               /\ UNCHANGED <<translations, isTranslating>>
               /\ children' = children
               /\ ~isListening'
       /\ \A x \in ScrollLefts :
             /\ ev.type \in {"onerror", "listen"} /\ error # <<>>
             /\ handleScroll(x)
             /\ resolveFocus(children, containerCenter2(x)) \notin {<<>>, lastReadCharIndexRef}
             => /\ lastReadCharIndexRef' = resolveFocus(children, containerCenter2(x))
                /\ speechSynthesis => calls' = letterCue(lastReadCharIndexRef'[1])]_vars

\* C27, its case: a recognition failed while the letter "l" was focused and
\* the finger was on one of its dots; focus, token and word are still there.
C27_ErrorWhileExploring ==
    /\ ev.type = "onerror"
    /\ ~isListening
    /\ error = << "Error. Intenta de nuevo." >>
    /\ currentWord = <<"S", "o", "l">> /\ translatedWord = <<"s", "u", "n">>
    /\ lastReadCharIndexRef = <<2>>
    /\ lastTouchedDotRef = << <<"2", "-", "0">> >>
    /\ finger = Point("dot", 2, 0)

\* what a click on the language button does when `rejected` tells the
\* clicks that are rejected: a rejected click leaves displayMode, the focused
\* index and the dot token and speaks "No disponible." alone; any other click
\* flips displayMode and announces the text of the new mode by speakMixed,
\* the name of the language first.
ToggleAsClaimed(rejected) ==
    toggleLanguage =>
      IF rejected
        THEN /\ UNCHANGED <<displayMode, refVars>>
             /\ vibrations' = <<>>
             /\ speechSynthesis =>
                  /\ CancelsFirst(calls')
                  /\ spokenBy(calls') = << Utterance(<< "No disponible." >>, "es-ES", 10) >>
                  /\ pending' = spokenBy(calls')
        ELSE /\ displayMode' # displayMode
             /\ vibrations' = <<>>
             /\ speechSynthesis /\ activeText' # <<>> =>
                  /\ CancelsFirst(calls')
                  /\ spokenBy(calls') =
                       IF displayMode' = "spanish"
                         THEN << Utterance(<< "Español" >>, "es-ES", 10),
                                 Utterance(activeText', "es-ES", 9) >>
                         ELSE << Utterance(<< "Inglés" >>, "es-ES", 10),
                                 Utterance(activeText', "en-US", 9) >>
                  /\ pending' = spokenBy(calls')

C30_TranslateWordTotal ==
    [][\A k \in 1..Len(translations) :
          \A r \in remotesFor(translations[k]) :
             handleTranslate(k, r) =>
               LET word == translations[k]
                   translation == translateWord(word, r)
               IN /\ translation # <<>>
                  /\ cleanWordOf(word) \in DOMAIN MOCK_DICTIONARY
                       => translation = MOCK_DICTIONARY[cleanWordOf(word)]]_vars

\* the pattern of a character: that of its lower-case form when the map has
\* it, else that of its form without diacritic when the map has that, else
\* six flat dots
PatternOf(c) ==
    LET lower == toLowerCase(c)
    IN IF lower \in DOMAIN BRAILLE_MAP THEN BRAILLE_MAP[lower]
       ELSE IF stripAccents(lower) \in DOMAIN BRAILLE_MAP
              THEN BRAILLE_MAP[stripAccents(lower)]
       ELSE NoDots

\* C31: the cells on screen are one per character of the displayed text, in
\* order, each with six dots: the pattern of the lower-case character, else
\* that of its base character without diacritic, else all flat.
C31_OnePatternPerCharacter ==
    currentWord # <<>> =>
      /\ Len(brailleData) = Len(activeText)
      /\ \A i \in 1..Len(activeText) :
            /\ brailleData[i].char = toLowerCase(activeText[i])
            /\ Len(brailleData[i].dots) = 6
            /\ brailleData[i].dots = PatternOf(activeText[i])

\* C32: a touch on a flat dot makes no call on the speech engine and leaves
\* the utterances it holds.
C32_FlatDotLeavesSpeech ==
    [][\A p \in DotPoints :
          (TouchStart(p) \/ TouchMove(p)) /\ ~brailleData[p.cell + 1].dots[p.dot + 1]
            => calls' = <<>> /\ pending' = pending]_vars

\* C33: one touch event calls vibrate at most once and speaks at most one
\* utterance.
C33_OneFeedbackPerTouchEvent ==
    [][\A p \in DotPoints :
          TouchStart(p) \/ TouchMove(p)
            => Len(vibrations') <= 1 /\ Len(spokenBy(calls')) <= 1]_vars

\* C34: displayMode is english only while translatedWord is non-empty, so
\* that a non-empty currentWord never shows an empty text.
C34_EnglishHasText ==
    /\ displayMode = "english" => translatedWord # <<>>
    /\ currentWord # <<>> => activeText # <<>>

\* what handleTranslate may store for a word: a value translateWord can
\* resolve with, or the word itself in place of the sentinel
TranslationsOf(word) ==
    { IF translateWord(word, r) = UNAVAILABLE THEN word ELSE translateWord(word, r) :
        r \in remotesFor(word) }

\* C35: whenever displayMode is english, translatedWord is a translation, or
\* the fallback copy, of currentWord as it is now.
C35_EnglishIsOfCurrentWord ==
    displayMode = "english" => translatedWord \in TranslationsOf(currentWord)

====
